---------------------------- MODULE Spec2Model ----------------------------
(***************************************************************************)
(* The feature registry of the engine (internal/engine/engine_bind.go) and *)
(* the primitive type system of package api, as a state machine.           *)
(*                                                                         *)
(* The registry part models concurrent callers of BindFeature,             *)
(* UnbindFeature and HasFeature on one engine.  Every access to the        *)
(* sync.Map e.features (Load, Store, Delete) and every call of the         *)
(* process-wide feature counter is one atomic step; the steps of one call  *)
(* interleave freely with the steps of the other callers.                  *)
(***************************************************************************)
EXTENDS Integers, Sequences, FiniteSets

(***************************************************************************)
(* Bounds of the model.                                                    *)
(***************************************************************************)
NumThreads == 2      \* concurrent callers of the engine
NumFQNs == 2         \* fully-qualified feature names in use
MaxCalls == 3        \* invocations of the engine's operations in one run
MaxStrLen == 2       \* characters of a string given to the type system
MaxInt == 12         \* magnitude of ints, float digits and microseconds
MaxScale == 2        \* fraction digits of a float64
MaxListLen == 2      \* elements of a generic list

Threads == 1..NumThreads
FQNs == 1..NumFQNs

VARIABLES
    features,   \* e.features: FQN -> *Feature (NoFeature: no entry under the key)
    counter,    \* the process-wide number-of-features gauge (package stats)
    pc,         \* the position of each caller inside its call
    frame,      \* the locals of each caller's call in progress
    ret,        \* the most recent return of a call: caller, operation, result
    calls,      \* invocations so far
    call,       \* the type system: the function under application and its inputs
    res,        \* the type system: the last result
    stage       \* the type system: "input", "applied" (once), "composed" (twice)

engineVars == <<features, counter, pc, frame, ret, calls>>
typeVars == <<call, res, stage>>
vars == <<features, counter, pc, frame, ret, calls, call, res, stage>>

(***************************************************************************)
(* The primitive type system of package api.  Go strings are sequences of  *)
(* one-character strings, so that formatting and parsing are computed      *)
(* character by character.                                                 *)
(***************************************************************************)
\* type PrimitiveType int, const ( ... iota ... )
PrimitiveTypeUnknown == 0
PrimitiveTypeString == 1
PrimitiveTypeInteger == 2
PrimitiveTypeFloat == 3
PrimitiveTypeBoolean == 4
PrimitiveTypeTimestamp == 5
PrimitiveTypeStringList == 6
PrimitiveTypeIntegerList == 7
PrimitiveTypeFloatList == 8
PrimitiveTypeBooleanList == 9
PrimitiveTypeTimestampList == 10

Tags == PrimitiveTypeUnknown..PrimitiveTypeTimestampList

\* strings.ToLower on the letters.
UpperCase == <<"A", "B", "C", "D", "E", "F", "G", "H", "I", "J", "K", "L", "M", "N", "O", "P", "Q", "R", "S", "T", "U", "V", "W", "X", "Y", "Z">>
LowerCase == <<"a", "b", "c", "d", "e", "f", "g", "h", "i", "j", "k", "l", "m", "n", "o", "p", "q", "r", "s", "t", "u", "v", "w", "x", "y", "z">>

ToLowerChar(c) ==
    IF \E k \in DOMAIN UpperCase : UpperCase[k] = c
    THEN LowerCase[CHOOSE k \in DOMAIN UpperCase : UpperCase[k] = c]
    ELSE c

ToLower(s) == [i \in DOMAIN s |-> ToLowerChar(s[i])]

StringToPrimitiveType(s) ==
    LET l == ToLower(s) IN
    IF l \in {<<"s", "t", "r", "i", "n", "g">>,
             <<"t", "e", "x", "t">>}
    THEN PrimitiveTypeString
    ELSE IF l \in {<<"i", "n", "t", "e", "g", "e", "r">>,
             <<"i", "n", "t">>,
             <<"i", "n", "t", "3", "2">>}
    THEN PrimitiveTypeInteger
    ELSE IF l \in {<<"f", "l", "o", "a", "t">>,
             <<"d", "o", "u", "b", "l", "e">>,
             <<"f", "l", "o", "a", "t", "3", "2">>,
             <<"f", "l", "o", "a", "t", "6", "4">>}
    THEN PrimitiveTypeFloat
    ELSE IF l \in {<<"t", "i", "m", "e">>,
             <<"d", "a", "t", "e", "t", "i", "m", "e">>,
             <<"t", "i", "m", "e", "s", "t", "a", "m", "p">>,
             <<"t", "i", "m", "e", ".", "t", "i", "m", "e">>,
             <<"d", "a", "t", "e", "t", "i", "m", "e", ".", "d", "a", "t", "e", "t", "i", "m", "e">>}
    THEN PrimitiveTypeTimestamp
    ELSE IF l \in {<<"b", "o", "o", "l">>,
             <<"b", "o", "o", "l", "e", "a", "n">>}
    THEN PrimitiveTypeBoolean
    ELSE IF l \in {<<"[", "]", "s", "t", "r", "i", "n", "g">>,
             <<"[", "]", "t", "e", "x", "t">>}
    THEN PrimitiveTypeStringList
    ELSE IF l \in {<<"[", "]", "i", "n", "t", "e", "g", "e", "r">>,
             <<"[", "]", "i", "n", "t">>,
             <<"[", "]", "i", "n", "t", "6", "4">>,
             <<"[", "]", "i", "n", "t", "3", "2">>}
    THEN PrimitiveTypeIntegerList
    ELSE IF l \in {<<"[", "]", "f", "l", "o", "a", "t">>,
             <<"[", "]", "d", "o", "u", "b", "l", "e">>,
             <<"[", "]", "f", "l", "o", "a", "t", "3", "2">>,
             <<"[", "]", "f", "l", "o", "a", "t", "6", "4">>}
    THEN PrimitiveTypeFloatList
    ELSE IF l \in {<<"[", "]", "b", "o", "o", "l">>,
             <<"[", "]", "b", "o", "o", "l", "e", "a", "n">>}
    THEN PrimitiveTypeBooleanList
    ELSE IF l \in {<<"[", "]", "t", "i", "m", "e">>,
             <<"[", "]", "d", "a", "t", "e", "t", "i", "m", "e">>,
             <<"[", "]", "t", "i", "m", "e", "s", "t", "a", "m", "p">>,
             <<"[", "]", "t", "i", "m", "e", ".", "t", "i", "m", "e">>}
    THEN PrimitiveTypeTimestampList
    ELSE PrimitiveTypeUnknown

Scalar(pt) ==
    IF pt \in {PrimitiveTypeStringList, PrimitiveTypeIntegerList,
               PrimitiveTypeFloatList, PrimitiveTypeBooleanList,
               PrimitiveTypeTimestampList}
    THEN FALSE
    ELSE TRUE

\* Singular with the TimestampList case returning the tag before Timestamp.
Singular_OffByOne(pt) ==
    CASE pt = PrimitiveTypeStringList -> PrimitiveTypeString
      [] pt = PrimitiveTypeIntegerList -> PrimitiveTypeInteger
      [] pt = PrimitiveTypeFloatList -> PrimitiveTypeFloat
      [] pt = PrimitiveTypeBooleanList -> PrimitiveTypeBoolean
      [] pt = PrimitiveTypeTimestampList -> PrimitiveTypeBoolean
      [] OTHER -> pt

Singular(pt) ==
    CASE pt = PrimitiveTypeStringList -> PrimitiveTypeString
      [] pt = PrimitiveTypeIntegerList -> PrimitiveTypeInteger
      [] pt = PrimitiveTypeFloatList -> PrimitiveTypeFloat
      [] pt = PrimitiveTypeBooleanList -> PrimitiveTypeBoolean
      [] pt = PrimitiveTypeTimestampList -> PrimitiveTypeTimestamp
      [] OTHER -> pt

Plural(pt) ==
    CASE pt = PrimitiveTypeString -> PrimitiveTypeStringList
      [] pt = PrimitiveTypeInteger -> PrimitiveTypeIntegerList
      [] pt = PrimitiveTypeFloat -> PrimitiveTypeFloatList
      [] pt = PrimitiveTypeBoolean -> PrimitiveTypeBooleanList
      [] pt = PrimitiveTypeTimestamp -> PrimitiveTypeTimestampList
      [] OTHER -> pt

String(pt) ==
    CASE pt = PrimitiveTypeString -> <<"s", "t", "r", "i", "n", "g">>
      [] pt = PrimitiveTypeInteger -> <<"i", "n", "t">>
      [] pt = PrimitiveTypeFloat -> <<"f", "l", "o", "a", "t">>
      [] pt = PrimitiveTypeBoolean -> <<"b", "o", "o", "l">>
      [] pt = PrimitiveTypeTimestamp -> <<"t", "i", "m", "e", "s", "t", "a", "m", "p">>
      [] pt = PrimitiveTypeStringList -> <<"[", "]", "s", "t", "r", "i", "n", "g">>
      [] pt = PrimitiveTypeIntegerList -> <<"[", "]", "i", "n", "t">>
      [] pt = PrimitiveTypeFloatList -> <<"[", "]", "]", "f", "l", "o", "a", "t">>
      [] pt = PrimitiveTypeBooleanList -> <<"[", "]", "b", "o", "o", "l">>
      [] pt = PrimitiveTypeTimestampList -> <<"[", "]", "t", "i", "m", "e", "s", "t", "a", "m", "p">>
      [] OTHER -> <<"(", "u", "n", "k", "n", "o", "w", "n", ")">>

(***************************************************************************)
(* Dynamic values (Go's any).  A value carries its concrete Go type and    *)
(* the payload of that type: s for a string, n for an int or for a         *)
(* time.Time (nanoseconds since the Unix epoch; the location and the       *)
(* monotonic reading of a time.Time are not modelled), f for a float64, b  *)
(* for a bool, l for the elements of a []any.  The payloads a type does    *)
(* not use hold their zero.                                                *)
(*                                                                         *)
(* A float64 is modelled by the shortest decimal that identifies it, which *)
(* is what strconv formats and parses: -1^neg * mant * 10^(-scale),        *)
(* normalised so that mant has no trailing zero when scale > 0; class is   *)
(* "fin", "inf" or "nan".                                                  *)
(***************************************************************************)
ZeroFloat == [class |-> "fin", neg |-> FALSE, mant |-> 0, scale |-> 0]

NoVal == [type |-> "nil", s |-> <<>>, n |-> 0, f |-> ZeroFloat, b |-> FALSE, l |-> <<>>]

StringVal(s) == [NoVal EXCEPT !.type = "string", !.s = s]
IntVal(n) == [NoVal EXCEPT !.type = "int", !.n = n]
FloatVal(f) == [NoVal EXCEPT !.type = "float64", !.f = f]
BoolVal(b) == [NoVal EXCEPT !.type = "bool", !.b = b]
TimeVal(ns) == [NoVal EXCEPT !.type = "time.Time", !.n = ns]
ListVal(l) == [NoVal EXCEPT !.type = "[]interface {}", !.l = l]
\* A value of another concrete type (int64, int32, float32, []int, ...).
OtherVal(type, n) == [NoVal EXCEPT !.type = type, !.n = n]

\* reflect.TypeOf(v).String()
TypeString(type) ==
    CASE type = "string" -> <<"s", "t", "r", "i", "n", "g">>
      [] type = "int" -> <<"i", "n", "t">>
      [] type = "float64" -> <<"f", "l", "o", "a", "t", "6", "4">>
      [] type = "bool" -> <<"b", "o", "o", "l">>
      [] type = "time.Time" -> <<"t", "i", "m", "e", ".", "T", "i", "m", "e">>
      [] type = "[]interface {}" -> <<"[", "]", "i", "n", "t", "e", "r", "f", "a", "c", "e", " ", "{", "}">>
      [] type = "int64" -> <<"i", "n", "t", "6", "4">>
      [] type = "int32" -> <<"i", "n", "t", "3", "2">>
      [] type = "float32" -> <<"f", "l", "o", "a", "t", "3", "2">>
      [] type = "[]int" -> <<"[", "]", "i", "n", "t">>
      [] type = "[]string" -> <<"[", "]", "s", "t", "r", "i", "n", "g">>

\* The outcome of a call: "ok", "error" (an error value returned to the
\* caller) or "panic"; with the error, and the result in the field of its
\* type (val: a value, str: a string, tag: a PrimitiveType, b: a bool).
NoRes ==
    [outcome |-> "none", err |-> "", val |-> NoVal, str |-> <<>>,
     tag |-> PrimitiveTypeUnknown, b |-> FALSE]

OkVal(v) == [NoRes EXCEPT !.outcome = "ok", !.val = v]
OkStr(s) == [NoRes EXCEPT !.outcome = "ok", !.str = s]
OkTag(t) == [NoRes EXCEPT !.outcome = "ok", !.tag = t]
OkBool(b) == [NoRes EXCEPT !.outcome = "ok", !.b = b]
Error(e) == [NoRes EXCEPT !.outcome = "error", !.err = e]
Panic(e) == [NoRes EXCEPT !.outcome = "panic", !.err = e]

(***************************************************************************)
(* package strconv, base 10.                                               *)
(***************************************************************************)
DigitChars == <<"0", "1", "2", "3", "4", "5", "6", "7", "8", "9">>

IsDigit(c) == \E k \in DOMAIN DigitChars : DigitChars[k] = c
DigitValue(c) == (CHOOSE k \in DOMAIN DigitChars : DigitChars[k] = c) - 1

RECURSIVE Pow10(_)
Pow10(k) == IF k = 0 THEN 1 ELSE 10 * Pow10(k - 1)

\* The decimal digits of n >= 0, without leading zeros.
RECURSIVE FormatUint(_)
FormatUint(n) ==
    IF n < 10 THEN <<DigitChars[n + 1]>>
    ELSE Append(FormatUint(n \div 10), DigitChars[(n % 10) + 1])

\* strconv.Itoa / strconv.FormatInt(n, 10)
FormatInt(n) == IF n < 0 THEN <<"-">> \o FormatUint(-n) ELSE FormatUint(n)

\* The number a string of digits denotes.
RECURSIVE DigitsValue(_)
DigitsValue(s) ==
    IF s = <<>> THEN 0
    ELSE 10 * DigitsValue(SubSeq(s, 1, Len(s) - 1)) + DigitValue(s[Len(s)])

\* strconv.Atoi / strconv.ParseInt(s, 10, 64): an optional sign, then one or
\* more digits.  (The range error of 64 bits is beyond the strings drawn.)
ParseInt(s) ==
    LET signed == s # <<>> /\ s[1] \in {"+", "-"}
        digits == IF signed THEN Tail(s) ELSE s
    IN  IF digits = <<>> \/ \E i \in DOMAIN digits : ~IsDigit(digits[i])
        THEN [ok |-> FALSE, n |-> 0]
        ELSE [ok |-> TRUE,
              n |-> IF signed /\ s[1] = "-" THEN -DigitsValue(digits)
                    ELSE DigitsValue(digits)]

\* strconv.FormatBool
FormatBool(b) == IF b THEN <<"t", "r", "u", "e">> ELSE <<"f", "a", "l", "s", "e">>

\* strconv.ParseBool
ParseBool(s) ==
    IF s \in {<<"1">>, <<"t">>, <<"T">>, <<"T", "R", "U", "E">>, <<"t", "r", "u", "e">>, <<"T", "r", "u", "e">>}
    THEN [ok |-> TRUE, b |-> TRUE]
    ELSE IF s \in {<<"0">>, <<"f">>, <<"F">>, <<"F", "A", "L", "S", "E">>, <<"f", "a", "l", "s", "e">>, <<"F", "a", "l", "s", "e">>}
    THEN [ok |-> TRUE, b |-> FALSE]
    ELSE [ok |-> FALSE, b |-> FALSE]

\* n >= 0 in exactly k digits, zero-padded on the left.
RECURSIVE FormatFixed(_, _)
FormatFixed(n, k) ==
    IF k = 0 THEN <<>>
    ELSE Append(FormatFixed(n \div 10, k - 1), DigitChars[(n % 10) + 1])

\* strconv.FormatFloat(v, 'f', -1, 64): the shortest decimal that identifies
\* v, without exponent.
FormatFloat(f) ==
    IF f.class = "nan" THEN <<"N", "a", "N">>
    ELSE IF f.class = "inf" THEN (IF f.neg THEN <<"-", "I", "n", "f">> ELSE <<"+", "I", "n", "f">>)
    ELSE (IF f.neg THEN <<"-">> ELSE <<>>)
         \o FormatUint(f.mant \div Pow10(f.scale))
         \o (IF f.scale = 0 THEN <<>>
             ELSE <<".">> \o FormatFixed(f.mant % Pow10(f.scale), f.scale))

\* The float with the given sign, digits and number of fraction digits.
RECURSIVE NormalFloat(_, _, _)
NormalFloat(neg, mant, scale) ==
    IF scale > 0 /\ mant % 10 = 0 THEN NormalFloat(neg, mant \div 10, scale - 1)
    ELSE [class |-> "fin", neg |-> neg, mant |-> mant, scale |-> scale]

\* strconv.ParseFloat(s, 64) on decimal input without exponent: "nan"; an
\* optional sign, then "inf" or "infinity", or digits with at most one point
\* and at least one digit.  Letters are matched without regard to case.
ParseFloat(s) ==
    LET signed == s # <<>> /\ s[1] \in {"+", "-"}
        neg == signed /\ s[1] = "-"
        body == IF signed THEN Tail(s) ELSE s
        lower == ToLower(body)
        points == {i \in DOMAIN body : body[i] = "."}
        point == IF points = {} THEN Len(body) + 1 ELSE CHOOSE i \in points : TRUE
        digits == SelectSeq(body, IsDigit)
    IN  IF ToLower(s) = <<"n", "a", "n">>
        THEN [ok |-> TRUE, f |-> [ZeroFloat EXCEPT !.class = "nan"]]
        ELSE IF lower \in {<<"i", "n", "f">>, <<"i", "n", "f", "i", "n", "i", "t", "y">>}
        THEN [ok |-> TRUE, f |-> [ZeroFloat EXCEPT !.class = "inf", !.neg = neg]]
        ELSE IF \/ digits = <<>>
                \/ Cardinality(points) > 1
                \/ \E i \in DOMAIN body : ~IsDigit(body[i]) /\ body[i] # "."
        THEN [ok |-> FALSE, f |-> ZeroFloat]
        ELSE [ok |-> TRUE,
              f |-> NormalFloat(neg, DigitsValue(digits),
                                IF points = {} THEN 0 ELSE Len(body) - point)]

(***************************************************************************)
(* package time.                                                           *)
(***************************************************************************)
NanosPerMicro == 1000

\* Time.UnixMicro(): the microseconds since the epoch, rounded down.
UnixMicro(ns) == ns \div NanosPerMicro

\* UnixMilli in the place of UnixMicro.
UnixMilli(ns) == ns \div (NanosPerMicro * NanosPerMicro)

\* time.UnixMicro(n): the time n microseconds after the epoch.
TimeOfUnixMicro(n) == n * NanosPerMicro

(***************************************************************************)
(* ScalarString, ScalarFromString, TypeDetect.                             *)
(***************************************************************************)
\* ScalarString printing a time.Time in milliseconds.
ScalarString_Millis(val) ==
    CASE val.type = "string" -> OkStr(val.s)
      [] val.type = "int" -> OkStr(FormatInt(val.n))
      [] val.type = "float64" -> OkStr(FormatFloat(val.f))
      [] val.type = "bool" -> OkStr(FormatBool(val.b))
      [] val.type = "time.Time" -> OkStr(FormatInt(UnixMilli(val.n)))
      [] OTHER -> Panic("unreachable")

ScalarString(val) ==
    CASE val.type = "string" -> OkStr(val.s)
      [] val.type = "int" -> OkStr(FormatInt(val.n))
      [] val.type = "float64" -> OkStr(FormatFloat(val.f))
      [] val.type = "bool" -> OkStr(FormatBool(val.b))
      [] val.type = "time.Time" -> OkStr(FormatInt(UnixMicro(val.n)))
      [] OTHER -> Panic("unreachable")

ScalarFromString(val, scalar) ==
    IF ~Scalar(scalar) THEN Error("is not a scalar type")
    ELSE CASE scalar = PrimitiveTypeString -> OkVal(StringVal(val))
           [] scalar = PrimitiveTypeInteger ->
                LET r == ParseInt(val) IN
                IF r.ok THEN OkVal(IntVal(r.n)) ELSE Error("strconv")
           [] scalar = PrimitiveTypeFloat ->
                LET r == ParseFloat(val) IN
                IF r.ok THEN OkVal(FloatVal(r.f)) ELSE Error("strconv")
           [] scalar = PrimitiveTypeBoolean ->
                LET r == ParseBool(val) IN
                IF r.ok THEN OkVal(BoolVal(r.b)) ELSE Error("strconv")
           [] scalar = PrimitiveTypeTimestamp ->
                LET r == ParseInt(val) IN
                IF r.ok THEN OkVal(TimeVal(TimeOfUnixMicro(r.n))) ELSE Error("strconv")
           [] OTHER -> Panic("unreachable")

\* TypeDetect on a []any takes the tag of the first element alone.
RECURSIVE TypeDetect_FirstOnly(_)
TypeDetect_FirstOnly(t) ==
    IF t.type = "nil" THEN Panic("nil pointer dereference")
    ELSE IF t.type = "[]interface {}"
    THEN IF t.l = <<>> THEN Panic("index out of range")
         ELSE LET first == TypeDetect_FirstOnly(t.l[1]) IN
              IF first.outcome = "ok" THEN OkTag(Plural(first.tag)) ELSE first
    ELSE OkTag(StringToPrimitiveType(TypeString(t.type)))

\* TypeDetect.  reflect.TypeOf(nil) is the nil Type, whose String() panics; the
\* first element of an empty []any is an index out of range.
RECURSIVE TypeDetect(_)
TypeDetect(t) ==
    IF t.type = "nil" THEN Panic("nil pointer dereference")
    ELSE IF t.type = "[]interface {}"
    THEN IF \E i \in DOMAIN t.l : t.l[i].type # t.l[1].type
         THEN OkTag(PrimitiveTypeUnknown)
         ELSE IF t.l = <<>> THEN Panic("index out of range")
         ELSE LET first == TypeDetect(t.l[1]) IN
              IF first.outcome = "ok" THEN OkTag(Plural(first.tag)) ELSE first
    ELSE OkTag(StringToPrimitiveType(TypeString(t.type)))

(***************************************************************************)
(* The inputs of the type system's functions, drawn within the bounds.     *)
(***************************************************************************)
\* The strings of at most n characters of the set chars.
RECURSIVE StringsUpTo(_, _)
StringsUpTo(chars, n) ==
    IF n = 0 THEN {<<>>}
    ELSE LET shorter == StringsUpTo(chars, n - 1) IN
         shorter \cup {Append(s, c) : s \in shorter, c \in chars}

InputChars == {"0", "1", "7", "-", "+", ".", "t", "T"}

Strings == StringsUpTo(InputChars, MaxStrLen)

Ints == -MaxInt..MaxInt

Floats ==
    {[class |-> "fin", neg |-> neg, mant |-> m, scale |-> k] :
        neg \in BOOLEAN, m \in 0..MaxInt, k \in 0..MaxScale}
    \cup {[ZeroFloat EXCEPT !.class = "nan"],
          [ZeroFloat EXCEPT !.class = "inf"],
          [ZeroFloat EXCEPT !.class = "inf", !.neg = TRUE]}

\* The float64 values: the floats in normal form.
NormalFloats ==
    {f \in Floats : f.class = "fin" => (f.scale = 0 \/ f.mant % 10 # 0)}

\* Times: whole microseconds, and times 1 ns and 999 ns after one.
Times ==
    {m * NanosPerMicro + r : m \in Ints, r \in {0, 1, NanosPerMicro - 1}}

ScalarValues ==
    {StringVal(x) : x \in Strings} \cup {IntVal(n) : n \in Ints}
    \cup {FloatVal(f) : f \in NormalFloats} \cup {BoolVal(b) : b \in BOOLEAN}
    \cup {TimeVal(ns) : ns \in Times}

\* The elements of the generic lists drawn: two values of each scalar type,
\* values of other concrete types, nil, and generic lists.
ElemValues ==
    {StringVal(<<>>), StringVal(<<"t">>), IntVal(0), IntVal(-1),
     FloatVal(ZeroFloat), FloatVal([ZeroFloat EXCEPT !.class = "nan"]),
     BoolVal(TRUE), BoolVal(FALSE), TimeVal(0), TimeVal(NanosPerMicro),
     OtherVal("int64", 1), OtherVal("int32", 1), OtherVal("[]int", 0), NoVal,
     ListVal(<<>>), ListVal(<<IntVal(1)>>), ListVal(<<StringVal(<<"t">>)>>)}

RECURSIVE ListsUpTo(_)
ListsUpTo(n) ==
    IF n = 0 THEN {<<>>}
    ELSE LET shorter == ListsUpTo(n - 1) IN
         shorter \cup {Append(l, e) : l \in shorter, e \in ElemValues}

ListValues == {ListVal(l) : l \in ListsUpTo(MaxListLen)}

OtherValues ==
    {OtherVal(ty, 1) : ty \in {"int64", "int32", "float32", "[]int", "[]string"}}
    \cup {NoVal}

Values == ScalarValues \cup ListValues \cup OtherValues

\* Type names given to StringToPrimitiveType: the names String prints, and
\* names in mixed case, with other aliases, and unknown ones.
TypeNames ==
    {String(pt) : pt \in Tags}
    \cup {<<"i", "n", "t", "3", "2">>,
          <<"I", "n", "t", "e", "g", "e", "r">>,
          <<"I", "N", "T">>,
          <<"[", "]", "d", "a", "t", "e", "t", "i", "m", "e">>,
          <<"[", "]", "T", "i", "m", "e", ".", "T", "i", "m", "e">>,
          <<"j", "s", "o", "n">>,
          <<>>,
          <<"t", "i", "m", "e", ".", "T", "i", "m", "e">>,
          <<"d", "a", "t", "e", "t", "i", "m", "e", ".", "d", "a", "t", "e", "t", "i", "m", "e">>,
          <<"[", "]", "d", "a", "t", "e", "t", "i", "m", "e", ".", "d", "a", "t", "e", "t", "i", "m", "e">>,
          <<"i", "n", "t", "6", "4">>,
          <<"[", "]", "i", "n", "t", "6", "4">>,
          <<"F", "l", "o", "a", "t", "6", "4">>,
          <<"[", "]", "f", "l", "o", "a", "t">>}

NoCall == [fn |-> "none", val |-> NoVal, str |-> <<>>, tag |-> PrimitiveTypeUnknown]

Calls ==
    {[NoCall EXCEPT !.fn = fn, !.val = v] :
        fn \in {"ScalarString", "TypeDetect"}, v \in Values}
    \cup {[NoCall EXCEPT !.fn = "ScalarFromString", !.str = x, !.tag = pt] :
            x \in Strings, pt \in Tags}
    \cup {[NoCall EXCEPT !.fn = fn, !.tag = pt] :
            fn \in {"Scalar", "Singular", "Plural", "String"}, pt \in Tags}
    \cup {[NoCall EXCEPT !.fn = "StringToPrimitiveType", !.str = x] : x \in TypeNames}

(***************************************************************************)
(* The feature registry: values.                                           *)
(***************************************************************************)
\* The builder kinds a manifest may name: one has a feature applier
\* registered, the other has none.
BuilderKinds == {"expression", "nobuilder"}

\* plugins.FeatureAppliers: the kinds with a registered FeatureApply plugin.
FeatureAppliers == {"expression"}

\* *manifests.Feature, as far as BindFeature reads it: the FQN, the builder
\* kind, whether the manifest parses into a FeatureDescriptor, and whether the
\* builder spec is one the applier plugin accepts.  The manifests drawn have at
\* most one of the three defects.
Manifests ==
    {m \in [FQN : FQNs, Builder : BuilderKinds, valid : BOOLEAN, specOK : BOOLEAN] :
        /\ ~m.valid => (m.Builder \in FeatureAppliers /\ m.specOK)
        /\ m.Builder \notin FeatureAppliers => m.specOK}

NoManifest == [FQN |-> 0, Builder |-> "", valid |-> FALSE, specOK |-> FALSE]

\* The absent map entry / the nil *Feature.
NoFeature == [FQN |-> 0, Builder |-> "", id |-> 0]

\* api.FeatureDescriptorFromManifest: the descriptor of the manifest, or an
\* error when the manifest does not parse.
FeatureDescriptorFromManifest(in) ==
    IF in.valid
    THEN [err |-> "nil", fd |-> [FQN |-> in.FQN, Builder |-> in.Builder]]
    ELSE [err |-> "InvalidDescriptor", fd |-> [FQN |-> 0, Builder |-> ""]]

\* The FeatureApply plugin p(ft.FeatureDescriptor, in.Spec.Builder, &ft, e):
\* an error on a builder spec it does not accept.
FeatureApply(fd, in) == IF in.specOK THEN "nil" ELSE "PluginError"

\* FeatureWithEngine without the lookup of the applier plugin.
FeatureWithEngine_NoLookup(in, id) ==
    LET r == FeatureDescriptorFromManifest(in) IN
    IF r.err # "nil" THEN [err |-> r.err, ft |-> NoFeature]
    ELSE [err |-> "nil",
          ft |-> [FQN |-> r.fd.FQN, Builder |-> r.fd.Builder, id |-> id]]

\* FeatureWithEngine(e, in).  id is the identity of the Feature value the call
\* allocates (ft := Feature{...}; return &ft): two calls never return the same
\* pointer.
FeatureWithEngine(in, id) ==
    LET r == FeatureDescriptorFromManifest(in) IN
    IF r.err # "nil" THEN [err |-> r.err, ft |-> NoFeature]
    ELSE IF r.fd.Builder \in FeatureAppliers
         THEN LET perr == FeatureApply(r.fd, in) IN
              IF perr # "nil" THEN [err |-> perr, ft |-> NoFeature]
              ELSE [err |-> "nil",
                    ft |-> [FQN |-> r.fd.FQN, Builder |-> r.fd.Builder, id |-> id]]
         ELSE [err |-> "BuilderNotFound", ft |-> NoFeature]

\* stats.IncNumberOfFeatures / stats.DecNumberOfFeatures on the gauge.
IncNumberOfFeatures(n) == n + 1
DecNumberOfFeatures(n) == n - 1

\* e.features.Load(fqn): the ok of (value, ok).
Load(m, fqn) == m[fqn] # NoFeature

\* The locals of a call in progress: fqn, the key the call works on; ft, the
\* *Feature built by FeatureWithEngine; err, the error the call will return
\* ("nil": none).  An idle caller has no frame.
NoFrame == [fqn |-> 0, ft |-> NoFeature, err |-> "nil"]

\* The most recent return of a call, as its caller sees it:
\* op, the operation; in, the manifest given to BindFeature; fqn, the key;
\* err, the error returned ("nil": none); has, the result of HasFeature.
NoRet ==
    [op |-> "none", in |-> NoManifest, fqn |-> 0, err |-> "nil",
     has |-> FALSE]

Init ==
    /\ features = [f \in FQNs |-> NoFeature]
    /\ counter = 0
    /\ pc = [t \in Threads |-> "idle"]
    /\ frame = [t \in Threads |-> NoFrame]
    /\ ret = NoRet
    /\ calls = 0
    /\ call = NoCall
    /\ res = NoRes
    /\ stage = "input"

(***************************************************************************)
(* engine.BindFeature: FeatureWithEngine, then bindFeature.  The plugin    *)
(* registry is read-only while the engine runs, so the lookup and the call *)
(* entry are one step.  On an error the call returns at once.              *)
(***************************************************************************)
BindFeature(t, in) ==
    /\ pc[t] = "idle"
    /\ calls < MaxCalls
    /\ calls' = calls + 1
    /\ LET r == FeatureWithEngine(in, calls + 1) IN
       IF r.err # "nil"
       THEN /\ ret' = [op |-> "BindFeature", in |-> in,
                       fqn |-> in.FQN, err |-> r.err, has |-> FALSE]
            /\ UNCHANGED <<pc, frame>>
       ELSE /\ frame' = [frame EXCEPT ![t] =
                            [fqn |-> r.ft.FQN, ft |-> r.ft, err |-> "nil"]]
            /\ pc' = [pc EXCEPT ![t] = "bind_has"]
            /\ ret' = ret
    /\ UNCHANGED <<features, counter>>
    /\ UNCHANGED typeVars

\* bindFeature without the existence check: an upsert.
bindFeature_Upsert(t) ==
    /\ pc[t] = "bind_has"
    /\ pc' = [pc EXCEPT ![t] = "bind_store"]
    /\ UNCHANGED <<features, counter, frame, ret, calls>>
    /\ UNCHANGED typeVars

\* bindFeature, line 68: if e.HasFeature(f.FQN) { return ErrFeatureAlreadyExists }
bindFeature_HasFeature(t) ==
    /\ pc[t] = "bind_has"
    /\ IF Load(features, frame[t].fqn)
       THEN /\ frame' = [frame EXCEPT ![t].err = "AlreadyExists"]
            /\ pc' = [pc EXCEPT ![t] = "bind_ret"]
       ELSE /\ frame' = frame
            /\ pc' = [pc EXCEPT ![t] = "bind_store"]
    /\ UNCHANGED <<features, counter, ret, calls>>
    /\ UNCHANGED typeVars

\* bindFeature with the Store left out.
bindFeature_StoreLost(t) ==
    /\ pc[t] = "bind_store"
    /\ pc' = [pc EXCEPT ![t] = "bind_ret"]
    /\ UNCHANGED <<features, counter, frame, ret, calls>>
    /\ UNCHANGED typeVars

\* bindFeature, line 71: e.features.Store(f.FQN, f)
bindFeature_Store(t) ==
    /\ pc[t] = "bind_store"
    /\ features' = [features EXCEPT ![frame[t].fqn] = frame[t].ft]
    /\ pc' = [pc EXCEPT ![t] = "bind_ret"]
    /\ UNCHANGED <<counter, frame, ret, calls>>
    /\ UNCHANGED typeVars

\* bindFeature, line 67: defer stats.IncNumberOfFeatures(), run as the function
\* returns on either path; then BindFeature returns bindFeature's error.
bindFeature_Return(t) ==
    /\ pc[t] = "bind_ret"
    /\ counter' = IncNumberOfFeatures(counter)
    /\ pc' = [pc EXCEPT ![t] = "idle"]
    /\ ret' = [op |-> "BindFeature",
               in |-> [FQN |-> frame[t].ft.FQN, Builder |-> frame[t].ft.Builder,
                       valid |-> TRUE, specOK |-> TRUE],
               fqn |-> frame[t].fqn, err |-> frame[t].err, has |-> FALSE]
    /\ frame' = [frame EXCEPT ![t] = NoFrame]
    /\ UNCHANGED <<features, calls>>
    /\ UNCHANGED typeVars

(***************************************************************************)
(* engine.UnbindFeature: e.features.Delete(fqn), then the deferred         *)
(* stats.DecNumberOfFeatures() and return nil.                             *)
(***************************************************************************)
\* UnbindFeature returning an error when the FQN is not bound.
UnbindFeature_ErrOnMissing(t, fqn) ==
    /\ pc[t] = "idle"
    /\ calls < MaxCalls
    /\ calls' = calls + 1
    /\ features' = [features EXCEPT ![fqn] = NoFeature]
    /\ frame' = [frame EXCEPT ![t] =
            [fqn |-> fqn, ft |-> NoFeature,
             err |-> IF Load(features, fqn) THEN "nil" ELSE "NotFound"]]
    /\ pc' = [pc EXCEPT ![t] = "unbind_ret"]
    /\ UNCHANGED <<counter, ret>>
    /\ UNCHANGED typeVars

UnbindFeature(t, fqn) ==
    /\ pc[t] = "idle"
    /\ calls < MaxCalls
    /\ calls' = calls + 1
    /\ features' = [features EXCEPT ![fqn] = NoFeature]
    /\ frame' = [frame EXCEPT ![t] =
            [fqn |-> fqn, ft |-> NoFeature, err |-> "nil"]]
    /\ pc' = [pc EXCEPT ![t] = "unbind_ret"]
    /\ UNCHANGED <<counter, ret>>
    /\ UNCHANGED typeVars

UnbindFeature_Return(t) ==
    /\ pc[t] = "unbind_ret"
    /\ counter' = DecNumberOfFeatures(counter)
    /\ pc' = [pc EXCEPT ![t] = "idle"]
    /\ ret' = [op |-> "UnbindFeature", in |-> NoManifest,
               fqn |-> frame[t].fqn, err |-> frame[t].err, has |-> FALSE]
    /\ frame' = [frame EXCEPT ![t] = NoFrame]
    /\ UNCHANGED <<features, calls>>
    /\ UNCHANGED typeVars

(***************************************************************************)
(* engine.HasFeature: one Load.                                            *)
(***************************************************************************)
HasFeature(t, fqn) ==
    /\ pc[t] = "idle"
    /\ calls < MaxCalls
    /\ calls' = calls + 1
    /\ ret' = [op |-> "HasFeature", in |-> NoManifest,
               fqn |-> fqn, err |-> "nil", has |-> Load(features, fqn)]
    /\ UNCHANGED <<features, counter, pc, frame>>
    /\ UNCHANGED typeVars

Next ==
    \/ \E t \in Threads, in \in Manifests : BindFeature(t, in)
    \/ \E t \in Threads : bindFeature_HasFeature(t)
    \/ \E t \in Threads : bindFeature_Store(t)
    \/ \E t \in Threads : bindFeature_Return(t)
    \/ \E t \in Threads, fqn \in FQNs : UnbindFeature(t, fqn)
    \/ \E t \in Threads : UnbindFeature_Return(t)
    \/ \E t \in Threads, fqn \in FQNs : HasFeature(t, fqn)

Spec == Init /\ [][Next]_vars

(***************************************************************************)
(* The type system's functions applied to the inputs drawn: first the      *)
(* function of the call, then the function it is composed with             *)
(* (ScalarFromString after ScalarString, Singular after Plural and Plural  *)
(* after Singular, StringToPrimitiveType after String).                    *)
(***************************************************************************)
InitTypes ==
    /\ features = [f \in FQNs |-> NoFeature]
    /\ counter = 0
    /\ pc = [t \in Threads |-> "idle"]
    /\ frame = [t \in Threads |-> NoFrame]
    /\ ret = NoRet
    /\ calls = 0
    /\ call \in Calls
    /\ res = NoRes
    /\ stage = "input"

Applied(r) ==
    /\ res' = r
    /\ stage' = "applied"
    /\ UNCHANGED <<call, engineVars>>

Composed(r) ==
    /\ res' = r
    /\ stage' = "composed"
    /\ UNCHANGED <<call, engineVars>>

Apply_ScalarString ==
    /\ stage = "input" /\ call.fn = "ScalarString"
    /\ Applied(ScalarString(call.val))

\* ScalarFromString(ScalarString(v), t), t the tag of v.
Compose_ScalarFromString ==
    /\ stage = "applied" /\ call.fn = "ScalarString" /\ res.outcome = "ok"
    /\ Composed(ScalarFromString(res.str, TypeDetect(call.val).tag))

Apply_ScalarFromString ==
    /\ stage = "input" /\ call.fn = "ScalarFromString"
    /\ Applied(ScalarFromString(call.str, call.tag))

Apply_TypeDetect ==
    /\ stage = "input" /\ call.fn = "TypeDetect"
    /\ Applied(TypeDetect(call.val))

Apply_Scalar ==
    /\ stage = "input" /\ call.fn = "Scalar"
    /\ Applied(OkBool(Scalar(call.tag)))

Apply_Singular ==
    /\ stage = "input" /\ call.fn = "Singular"
    /\ Applied(OkTag(Singular(call.tag)))

Apply_Plural ==
    /\ stage = "input" /\ call.fn = "Plural"
    /\ Applied(OkTag(Plural(call.tag)))

\* Plural(Singular(t))
Compose_Plural ==
    /\ stage = "applied" /\ call.fn = "Singular"
    /\ Composed(OkTag(Plural(res.tag)))

\* Singular(Plural(t))
Compose_Singular ==
    /\ stage = "applied" /\ call.fn = "Plural"
    /\ Composed(OkTag(Singular(res.tag)))

Apply_String ==
    /\ stage = "input" /\ call.fn = "String"
    /\ Applied(OkStr(String(call.tag)))

\* StringToPrimitiveType(t.String())
Compose_StringToPrimitiveType ==
    /\ stage = "applied" /\ call.fn = "String"
    /\ Composed(OkTag(StringToPrimitiveType(res.str)))

Apply_StringToPrimitiveType ==
    /\ stage = "input" /\ call.fn = "StringToPrimitiveType"
    /\ Applied(OkTag(StringToPrimitiveType(call.str)))

NextTypes ==
    \/ Apply_ScalarString
    \/ Compose_ScalarFromString
    \/ Apply_ScalarFromString
    \/ Apply_TypeDetect
    \/ Apply_Scalar
    \/ Apply_Singular
    \/ Apply_Plural
    \/ Compose_Plural
    \/ Compose_Singular
    \/ Apply_String
    \/ Compose_StringToPrimitiveType
    \/ Apply_StringToPrimitiveType

SpecTypes == InitTypes /\ [][NextTypes]_vars

(***************************************************************************)
(* The scenario of concurrent binds of distinct names: a BindFeature of a  *)
(* well-formed manifest starts only on an FQN that is unbound and that no  *)
(* call in progress works on, and an UnbindFeature only on an FQN that no  *)
(* call in progress works on.  The calls themselves run concurrently, step *)
(* by step, exactly as in Spec.                                            *)
(***************************************************************************)
InFlight(fqn) == \E u \in Threads : pc[u] # "idle" /\ frame[u].fqn = fqn

GoodManifests ==
    {m \in Manifests : m.valid /\ m.specOK /\ m.Builder \in FeatureAppliers}

NextDistinct ==
    \/ \E t \in Threads, in \in GoodManifests :
          /\ ~Load(features, in.FQN)
          /\ ~InFlight(in.FQN)
          /\ BindFeature(t, in)
    \/ \E t \in Threads : bindFeature_HasFeature(t)
    \/ \E t \in Threads : bindFeature_Store(t)
    \/ \E t \in Threads : bindFeature_Return(t)
    \/ \E t \in Threads, fqn \in FQNs : ~InFlight(fqn) /\ UnbindFeature(t, fqn)
    \/ \E t \in Threads : UnbindFeature_Return(t)
    \/ \E t \in Threads, fqn \in FQNs : HasFeature(t, fqn)

SpecDistinct == Init /\ [][NextDistinct]_vars

(***************************************************************************)
(* Steps of a behaviour, named for the properties below.                   *)
(***************************************************************************)
\* Caller t returns from BindFeature in this step.
BindReturns(t) ==
    \/ pc[t] = "bind_ret" /\ pc'[t] = "idle"
    \/ pc[t] = "idle" /\ pc'[t] = "idle" /\ calls' # calls /\ ret'.op = "BindFeature"
       /\ \A u \in Threads : pc'[u] = pc[u]

\* Caller t runs the existence check of bindFeature in this step.
BindChecks(t) == pc[t] = "bind_has" /\ pc'[t] # "bind_has"

\* Caller t runs the Delete of UnbindFeature on fqn in this step.
UnbindDeletes(t, fqn) ==
    pc[t] = "idle" /\ pc'[t] = "unbind_ret" /\ frame'[t].fqn = fqn

Bound == {f \in FQNs : Load(features, f)}

\* C1: a BindFeature whose existence check finds its FQN bound returns
\* AlreadyExists, and the Feature stored under the FQN stays the one that was
\* bound: the check step and the return step of such a call leave the registry
\* as it is.
C1_BindIsNotUpsert ==
    [][\A t \in Threads :
          /\ (BindChecks(t) /\ Load(features, frame[t].fqn)) =>
                /\ pc'[t] = "bind_ret"
                /\ frame'[t].err = "AlreadyExists"
                /\ features' = features
          /\ (pc[t] = "bind_ret" /\ pc'[t] = "idle") =>
                /\ ret'.op = "BindFeature"
                /\ ret'.err = frame[t].err
                /\ features' = features]_vars

\* C1 witness: a BindFeature has returned AlreadyExists while a Feature of an
\* earlier call is stored under its FQN.
C1_Witness ==
    /\ ret.op = "BindFeature"
    /\ ret.err = "AlreadyExists"
    /\ Load(features, ret.fqn)
    /\ features[ret.fqn].id < calls

\* C2: the existence check and the store of bindFeature are atomic per key: a
\* Feature stored under an FQN is never overwritten by another BindFeature.
C2_CheckAndStoreAtomic ==
    [][\A f \in FQNs :
          (Load(features, f) /\ Load(features', f)) => features'[f] = features[f]]_vars

\* C3: BindFeature increments the feature counter by one when it returns
\* success and leaves it unchanged when it returns an error.
C3_CounterOnSuccessOnly ==
    [][\A t \in Threads :
          BindReturns(t) =>
              counter' = counter + (IF ret'.err = "nil" THEN 1 ELSE 0)]_vars

\* C4: a BindFeature of a manifest whose builder kind has no registered
\* applier returns BuilderNotFound, and one whose applier plugin returns an
\* error returns that error; either way the call returns at once and the
\* registry is unchanged.
C4_BuilderNotFoundNoMutation ==
    [][\A t \in Threads :
          (BindReturns(t) /\ ret'.in.valid) =>
              /\ (ret'.in.Builder \notin FeatureAppliers) =>
                    /\ ret'.err = "BuilderNotFound"
                    /\ pc[t] = "idle"
                    /\ features' = features
              /\ (ret'.in.Builder \in FeatureAppliers /\ ~ret'.in.specOK) =>
                    /\ ret'.err = "PluginError"
                    /\ pc[t] = "idle"
                    /\ features' = features]_vars

\* C4 witness: a BindFeature of a manifest with an unregistered builder kind
\* has returned while a Feature is bound in the registry.
C4_Witness ==
    /\ ret.op = "BindFeature"
    /\ ret.in.valid
    /\ ret.in.Builder \notin FeatureAppliers
    /\ ret.err = "BuilderNotFound"
    /\ Bound # {}

\* C5: UnbindFeature returns no error whether or not the FQN is bound; its
\* Delete leaves the FQN unbound and every other FQN as it was, so on an
\* unbound FQN (never bound, or unbound before) it changes nothing.
C5_UnbindIdempotent ==
    [][\A t \in Threads :
          /\ \A f \in FQNs :
                UnbindDeletes(t, f) =>
                    /\ ~Load(features', f)
                    /\ \A g \in FQNs \ {f} : features'[g] = features[g]
                    /\ ~Load(features, f) => features' = features
          /\ (pc[t] = "unbind_ret" /\ pc'[t] = "idle") =>
                /\ ret'.op = "UnbindFeature"
                /\ ret'.err = "nil"
                /\ features' = features]_vars

\* C5 witness: an UnbindFeature has returned without error, its FQN is
\* unbound, no call is in progress and the counter is below zero: more
\* UnbindFeature calls have returned than Features were ever stored, so one of
\* them ran on an FQN that was not bound.
C5_Witness ==
    /\ ret.op = "UnbindFeature"
    /\ ret.err = "nil"
    /\ ~Load(features, ret.fqn)
    /\ counter < 0
    /\ \A t \in Threads : pc[t] = "idle"

\* C6: concurrent binds of distinct, unbound FQNs all succeed; a bind that
\* returns success is visible when it returns and stays visible until an
\* UnbindFeature deletes that FQN; HasFeature reports what is stored; and when
\* every call made so far was a bind that has returned, all their FQNs are
\* visible at once.
C6_DistinctBindsVisible ==
    /\ [](ret.op = "BindFeature" => ret.err = "nil")
    /\ []((\A t \in Threads : pc[t] = "idle") /\ counter = calls
             => Cardinality(Bound) = calls)
    /\ [][\A t \in Threads :
             /\ (pc[t] = "bind_ret" /\ pc'[t] = "idle") =>
                    Load(features', frame[t].fqn)
             /\ \A f \in FQNs :
                    (pc[t] = "idle" /\ pc'[t] = "idle" /\ calls' # calls
                        /\ ret'.op = "HasFeature" /\ ret'.fqn = f
                        /\ \A u \in Threads : pc'[u] = pc[u])
                    => ret'.has = Load(features, f)]_vars
    /\ [][\A f \in FQNs :
             (Load(features, f) /\ ~Load(features', f)) =>
                 \E t \in Threads : UnbindDeletes(t, f)]_vars

\* C6 witness: every caller is at the return of a bind of its own FQN at the
\* same time, and all those FQNs are bound.
C6_Witness ==
    /\ \A t \in Threads : pc[t] = "bind_ret" /\ frame[t].err = "nil"
    /\ \A t, u \in Threads : t # u => frame[t].fqn # frame[u].fqn
    /\ \A t \in Threads : Load(features, frame[t].fqn)

(***************************************************************************)
(* The tags and the Go types the properties of the type system speak of.   *)
(***************************************************************************)
ScalarTags ==
    {PrimitiveTypeString, PrimitiveTypeInteger, PrimitiveTypeFloat,
     PrimitiveTypeBoolean, PrimitiveTypeTimestamp}

ListTags ==
    {PrimitiveTypeStringList, PrimitiveTypeIntegerList, PrimitiveTypeFloatList,
     PrimitiveTypeBooleanList, PrimitiveTypeTimestampList}

\* The Go types of the values of the five scalar tags.
ScalarGoTypes == {"string", "int", "float64", "bool", "time.Time"}

TagOfGoType(type) ==
    CASE type = "string" -> PrimitiveTypeString
      [] type = "int" -> PrimitiveTypeInteger
      [] type = "float64" -> PrimitiveTypeFloat
      [] type = "bool" -> PrimitiveTypeBoolean
      [] type = "time.Time" -> PrimitiveTypeTimestamp

\* C7: for a value v of one of the five scalar types, a time.Time being a
\* whole number of microseconds, ScalarString(v) succeeds and
\* ScalarFromString of its result with the tag of v returns v, without error.
\* (A value is the same value when its payload is: NaN is the same as NaN, and
\* a time is its instant.)
C7_ScalarRoundTrip ==
    (call.fn = "ScalarString" /\ call.val.type \in ScalarGoTypes
        /\ (call.val.type = "time.Time" => call.val.n % NanosPerMicro = 0)) =>
        /\ stage = "applied" => res.outcome = "ok"
        /\ stage = "composed" => (res.outcome = "ok" /\ res.val = call.val)

\* C7 witness: a time before the epoch, a whole number of microseconds, has
\* gone through ScalarString and ScalarFromString.
C7_Witness ==
    /\ stage = "composed"
    /\ call.fn = "ScalarString"
    /\ call.val.type = "time.Time"
    /\ call.val.n = -(MaxInt * NanosPerMicro)
    /\ res.val = call.val

\* C8: TypeDetect of a generic list with at least one element, all of one
\* scalar type t, is Plural(t); TypeDetect of a generic list with two elements
\* of different concrete types is Unknown.
C8_TypeDetectLists ==
    (stage = "applied" /\ call.fn = "TypeDetect" /\ call.val.type = "[]interface {}") =>
        LET l == call.val.l IN
        /\ (/\ l # <<>>
            /\ l[1].type \in ScalarGoTypes
            /\ \A i \in DOMAIN l : l[i].type = l[1].type) =>
                /\ res.outcome = "ok"
                /\ res.tag = Plural(TagOfGoType(l[1].type))
        /\ (\E i, j \in DOMAIN l : l[i].type # l[j].type) =>
                /\ res.outcome = "ok"
                /\ res.tag = PrimitiveTypeUnknown

\* C8 witness: TypeDetect has been applied to a list of an int and a string.
C8_Witness ==
    /\ stage = "applied"
    /\ call.fn = "TypeDetect"
    /\ call.val = ListVal(<<IntVal(0), StringVal(<<"t">>)>>)
    /\ res.tag = PrimitiveTypeUnknown

\* C9: Singular(Plural(t)) = t for the five scalar tags, Plural(Singular(t)) = t
\* for the five list tags, Unknown is a fixed point of Singular and of Plural,
\* and Scalar(t) is true exactly when t is not a list tag.
C9_TagAlgebra ==
    /\ (stage = "composed" /\ call.fn = "Plural" /\ call.tag \in ScalarTags) =>
            res.tag = call.tag
    /\ (stage = "composed" /\ call.fn = "Singular" /\ call.tag \in ListTags) =>
            res.tag = call.tag
    /\ (stage = "applied" /\ call.fn \in {"Singular", "Plural"}
            /\ call.tag = PrimitiveTypeUnknown) =>
            res.tag = PrimitiveTypeUnknown
    /\ (stage = "applied" /\ call.fn = "Scalar") =>
            (res.b <=> call.tag \notin ListTags)

\* C9 witness: Plural and then Singular have been applied to Timestamp.
C9_Witness ==
    /\ stage = "composed"
    /\ call.fn = "Plural"
    /\ call.tag = PrimitiveTypeTimestamp
    /\ res.tag = PrimitiveTypeTimestamp

\* C10: ScalarString of a value that is not a scalar, and ScalarFromString
\* with a list tag, return an error to the caller; ScalarFromString with a tag
\* for which Scalar() is true returns a value or an error.  None of them
\* panics.
C10_ErrorsNotPanics ==
    /\ (stage = "applied" /\ call.fn = "ScalarString"
            /\ call.val.type \notin ScalarGoTypes) =>
            res.outcome = "error"
    /\ (stage = "applied" /\ call.fn = "ScalarFromString" /\ call.tag \in ListTags) =>
            res.outcome = "error"
    /\ (stage = "applied" /\ call.fn = "ScalarFromString" /\ Scalar(call.tag)) =>
            res.outcome \in {"ok", "error"}

\* C11: whenever every BindFeature and UnbindFeature call made so far has
\* returned (no call is between its first step and its deferred counter
\* update), the process-wide feature counter equals the number of FQNs bound
\* in the registry, and so is not negative.
C11_CounterIsBoundCount ==
    (\A t \in Threads : pc[t] = "idle") =>
        /\ counter = Cardinality(Bound)
        /\ counter >= 0

\* C12: for each of the ten tags other than Unknown, StringToPrimitiveType
\* applied to the name that String() prints for the tag is the tag itself.
C12_StringParsesBack ==
    (stage = "composed" /\ call.fn = "String"
        /\ call.tag \in Tags \ {PrimitiveTypeUnknown}) =>
        /\ res.outcome = "ok"
        /\ res.tag = call.tag

=============================================================================
